---- MODULE Spec2Model ----
(***************************************************************************)
(* A model of the IPv4 subnet calculator of src/script.js.                 *)
(*                                                                         *)
(* Values.  A JavaScript string is a sequence of one-character strings.    *)
(* A JavaScript number that is the result of an int32 operator (&, |, ~,   *)
(* <<, >>) or a small count is an integer.  A number that can leave the    *)
(* int32 range (Math.pow, result + 1) is a "wide" number, the record       *)
(* [hi, lo] standing for hi * 2^16 + lo with lo in 0 .. 2^16 - 1: doubles  *)
(* are exact on the integers the program reaches (below 2^53).             *)
(***************************************************************************)
EXTENDS Integers, Sequences, FiniteSets, TLC

VARIABLES
    ipAddressInput,   \* value of the #ipAddress field at the last trigger
    subnetMaskInput,  \* value of the #subnetMask field at the last trigger
    resultDiv,        \* content of the #result panel (innerHTML)
    log,              \* calls made by the last trigger, in order
    shownBefore,      \* kind of what the panel held when the last trigger began
    ipBytes,          \* argument of performNetworkCalculations
    prefix,           \* the n of the mask 1^n 0^(32-n) given to it
    maskBytes,        \* argument of performNetworkCalculations
    calc,             \* its result
    fn,               \* a function of the script applied on its own
    arg,              \* its argument
    out               \* its result

vars == <<ipAddressInput, subnetMaskInput, resultDiv, log, shownBefore,
          ipBytes, prefix, maskBytes, calc, fn, arg, out>>

clickVars == <<ipAddressInput, subnetMaskInput, resultDiv, log, shownBefore>>
calcVars  == <<ipBytes, prefix, maskBytes, calc>>
fnVars    == <<fn, arg, out>>

(***************************************************************************)
(* int32 operators                                                         *)
(***************************************************************************)
MinInt32 == -2147483647 - 1

RECURSIVE And32(_, _)
And32(a, b) ==
    IF a = 0 \/ b = 0 THEN 0
    ELSE IF a = -1 THEN b
    ELSE IF b = -1 THEN a
    ELSE (a % 2) * (b % 2) + 2 * And32(a \div 2, b \div 2)

RECURSIVE Or32(_, _)
Or32(a, b) ==
    IF a = 0 THEN b
    ELSE IF b = 0 THEN a
    ELSE IF a = -1 \/ b = -1 THEN -1
    ELSE (IF a % 2 = 1 \/ b % 2 = 1 THEN 1 ELSE 0) + 2 * Or32(a \div 2, b \div 2)

Not32(a) == -1 - a

\* a << n: the low 32 - n bits of a moved up, bit 31 being the sign
Shl32(a, n) ==
    LET k == n % 32 IN
    IF k = 0 THEN a
    ELSE LET low  == a % (2 ^ (31 - k))
             sign == (a \div (2 ^ (31 - k))) % 2
         IN  low * (2 ^ k) + (IF sign = 1 THEN MinInt32 ELSE 0)

\* a >> n: sign-propagating
Sar32(a, n) ==
    LET k == n % 32 IN
    IF k = 31 THEN (IF a < 0 THEN -1 ELSE 0) ELSE a \div (2 ^ k)

(***************************************************************************)
(* wide numbers (doubles holding integers beyond int32)                    *)
(***************************************************************************)
WideOf(n) == [hi |-> n \div (2 ^ 16), lo |-> n % (2 ^ 16)]

WAdd(a, b) ==
    LET s == a.lo + b.lo
    IN  [hi |-> a.hi + b.hi + (s \div (2 ^ 16)), lo |-> s % (2 ^ 16)]

WSub(a, b) ==
    LET s == a.lo - b.lo
    IN  [hi |-> a.hi - b.hi + (s \div (2 ^ 16)), lo |-> s % (2 ^ 16)]

\* Math.pow(2, e) for an integer e in 0 .. 46
MathPow2(e) ==
    IF e >= 16 THEN [hi |-> 2 ^ (e - 16), lo |-> 0] ELSE [hi |-> 0, lo |-> 2 ^ e]

(***************************************************************************)
(* strings                                                                 *)
(***************************************************************************)
DecDigits == <<"0", "1", "2", "3", "4", "5", "6", "7", "8", "9">>
HexDigits == DecDigits \o <<"a", "b", "c", "d", "e", "f">>
Whitespace == {" ", "\t", "\n"}

IsDecDigit(c) == \E d \in 1..10 : DecDigits[d] = c
DecVal(c) == (CHOOSE d \in 1..10 : DecDigits[d] = c) - 1
LowerHex(c) ==
    CASE c = "A" -> "a" [] c = "B" -> "b" [] c = "C" -> "c"
      [] c = "D" -> "d" [] c = "E" -> "e" [] c = "F" -> "f" [] OTHER -> c
IsHexDigit(c) == \E d \in 1..16 : HexDigits[d] = LowerHex(c)
HexVal(c) == (CHOOSE d \in 1..16 : HexDigits[d] = LowerHex(c)) - 1

\* Number.prototype.toString(radix) of an integer
RECURSIVE NatToString(_, _)
NatToString(n, radix) ==
    IF n < radix THEN <<HexDigits[n + 1]>>
    ELSE NatToString(n \div radix, radix) \o <<HexDigits[(n % radix) + 1]>>

NumberToString(n, radix) ==
    IF n < 0 THEN <<"-">> \o NatToString(-n, radix) ELSE NatToString(n, radix)

\* String.prototype.padStart(len, "0")
RECURSIVE padStart(_, _, _)
padStart(s, len, c) == IF Len(s) >= len THEN s ELSE padStart(<<c>> \o s, len, c)

\* Array.prototype.join of an array of numbers
RECURSIVE join(_, _)
join(arr, sep) ==
    IF Len(arr) = 0 THEN <<>>
    ELSE IF Len(arr) = 1 THEN NumberToString(arr[1], 10)
    ELSE NumberToString(arr[1], 10) \o sep \o join(Tail(arr), sep)

\* String.prototype.indexOf of one character, 0-based, -1 when absent
indexOf(s, c) ==
    IF \A i \in 1..Len(s) : s[i] # c THEN -1
    ELSE (CHOOSE i \in 1..Len(s) : s[i] = c /\ \A j \in 1..(i - 1) : s[j] # c) - 1

\* String.prototype.slice(from) / substring(from), 0-based
slice(s, from) == SubSeq(s, from + 1, Len(s))

includes(s, c) == \E i \in 1..Len(s) : s[i] = c

startsWith(s, c) == Len(s) >= 1 /\ s[1] = c

\* String.prototype.split on one character
RECURSIVE split(_, _)
split(s, c) ==
    LET k == indexOf(s, c) IN
    IF k = -1 THEN <<s>>
    ELSE <<SubSeq(s, 1, k)>> \o split(slice(s, k + 1), c)

RECURSIVE trimStart(_)
trimStart(s) ==
    IF Len(s) > 0 /\ s[1] \in Whitespace THEN trimStart(Tail(s)) ELSE s

RECURSIVE trimEnd(_)
trimEnd(s) ==
    IF Len(s) > 0 /\ s[Len(s)] \in Whitespace
    THEN trimEnd(SubSeq(s, 1, Len(s) - 1)) ELSE s

trim(s) == trimEnd(trimStart(s))

\* the value of the longest prefix of s made of digits of the radix;
\* n counts the digits read
RECURSIVE DigitPrefix(_, _, _, _)
DigitPrefix(s, radix, acc, n) ==
    IF Len(s) > 0 /\ (IF radix = 16 THEN IsHexDigit(s[1]) ELSE IsDecDigit(s[1]))
    THEN DigitPrefix(Tail(s), radix,
                     acc * radix + (IF radix = 16 THEN HexVal(s[1]) ELSE DecVal(s[1])),
                     n + 1)
    ELSE [v |-> acc, n |-> n]

NaN == [nan |-> TRUE, v |-> 0]
Num(n) == [nan |-> FALSE, v |-> n]

\* parseInt(s) with no radix: leading whitespace, a sign, 0x / 0X, then the
\* longest run of digits; NaN when there is none.  NaN carries v = 0, the
\* value ToInt32 gives it.
parseInt(s) ==
    LET t    == trimStart(s)
        neg  == startsWith(t, "-")
        u    == IF startsWith(t, "-") \/ startsWith(t, "+") THEN Tail(t) ELSE t
        hex  == Len(u) >= 2 /\ u[1] = "0" /\ u[2] \in {"x", "X"}
        body == IF hex THEN slice(u, 2) ELSE u
        p    == DigitPrefix(body, IF hex THEN 16 ELSE 10, 0, 0)
    IN  IF p.n = 0 THEN NaN ELSE Num(IF neg THEN -p.v ELSE p.v)

\* Number(s) on the strings convertToBytes can be given: the empty string is
\* 0 and a run of decimal digits its value (the regular expression of
\* isValidIP / isValidMask admits nothing else before convertToBytes runs)
Number(s) ==
    LET t == trim(s) IN
    IF Len(t) = 0 THEN Num(0)
    ELSE IF \A i \in 1..Len(t) : IsDecDigit(t[i]) THEN Num(DigitPrefix(t, 10, 0, 0).v)
    ELSE NaN

\* s.match(/^(\d{1,3})\.(\d{1,3})\.(\d{1,3})\.(\d{1,3})$/): the four groups,
\* or null
NoMatch == [isNull |-> TRUE, groups |-> <<>>]
matchDotted(s) ==
    LET parts == split(s, ".") IN
    IF /\ Len(parts) = 4
       /\ \A i \in 1..4 : /\ Len(parts[i]) \in 1..3
                          /\ \A j \in 1..Len(parts[i]) : IsDecDigit(parts[i][j])
    THEN [isNull |-> FALSE, groups |-> parts]
    ELSE NoMatch

\* x > n for the result x of parseInt: false for NaN
GreaterThan(x, n) == ~x.nan /\ x.v > n
LessThan(x, n) == ~x.nan /\ x.v < n

(***************************************************************************)
(* the result panel: showError and the log of the calls of one trigger     *)
(***************************************************************************)
MsgMissingFields == "ERROR: Please fill in all fields!"
MsgInvalidIP     == "ERROR: Invalid IP address format!"
MsgInvalidCidr   == "ERROR: Invalid CIDR notation! Use /0 to /32"
MsgInvalidMask   == "ERROR: Invalid subnet mask format!"

EmptyPanel == [kind |-> "empty"]

\* a showError that leaves a result already on the panel in place
showError_KeepsResult(dom, message) ==
    IF dom.resultDiv.kind = "result"
    THEN [dom EXCEPT !.log = Append(@, "showError")]
    ELSE [resultDiv |-> [kind |-> "error", message |-> message],
          log       |-> Append(dom.log, "showError")]

showError(dom, message) ==
    [resultDiv |-> [kind |-> "error", message |-> message],
     log       |-> Append(dom.log, "showError")]

(***************************************************************************)
(* input validation                                                        *)
(***************************************************************************)
\* the error shown, but true returned: the handler goes on
validateInputsNotEmpty_GoesOn(dom, ip, mask) ==
    IF ip = <<>> \/ mask = <<>>
    THEN [ret |-> TRUE, dom |-> showError(dom, MsgMissingFields)]
    ELSE [ret |-> TRUE, dom |-> dom]

validateInputsNotEmpty(dom, ip, mask) ==
    IF ip = <<>> \/ mask = <<>>
    THEN [ret |-> FALSE, dom |-> showError(dom, MsgMissingFields)]
    ELSE [ret |-> TRUE, dom |-> dom]

isValidIP(ip) ==
    LET match == matchDotted(ip) IN
    IF match.isNull THEN FALSE
    ELSE \A i \in 1..4 : ~GreaterThan(parseInt(match.groups[i]), 255)

\* the loop over the four groups, then the test on the 32-character string
RECURSIVE isValidMaskLoop(_, _, _)
isValidMaskLoop(groups, i, bin) ==
    IF i > 4
    THEN LET firstZero == indexOf(bin, "0")
         IN  firstZero = -1 \/ ~includes(slice(bin, firstZero), "1")
    ELSE LET oct == parseInt(groups[i]) IN
         IF GreaterThan(oct, 255) THEN FALSE
         ELSE isValidMaskLoop(groups, i + 1,
                              bin \o padStart(NumberToString(oct.v, 2), 8, "0"))

\* the octets checked, the run of ones not
isValidMask_OctetsOnly(mask) ==
    LET match == matchDotted(mask) IN
    IF match.isNull THEN FALSE
    ELSE \A i \in 1..4 : ~GreaterThan(parseInt(match.groups[i]), 255)

isValidMask(mask) ==
    LET match == matchDotted(mask) IN
    IF match.isNull THEN FALSE ELSE isValidMaskLoop(match.groups, 1, <<>>)

(***************************************************************************)
(* conversion helpers                                                      *)
(***************************************************************************)
convertToBytes(address) ==
    LET parts == split(address, ".")
    IN  [i \in 1..Len(parts) |-> Number(parts[i]).v]

\* for (let j = 7; j >= 8 - cidr; j--) byte += (1 << j)
RECURSIVE cidrToMaskByte(_, _, _)
cidrToMaskByte(j, cidr, byte) ==
    IF j >= 8 - cidr THEN cidrToMaskByte(j - 1, cidr, byte + Shl32(1, j)) ELSE byte

RECURSIVE cidrToMaskLoop(_, _, _)
cidrToMaskLoop(i, cidr, bytes) ==
    IF i < 4
    THEN IF cidr >= 8
         THEN cidrToMaskLoop(i + 1, cidr - 8, Append(bytes, 255))
         ELSE cidrToMaskLoop(i + 1, 0, Append(bytes, cidrToMaskByte(7, cidr, 0)))
    ELSE join(bytes, <<".">>)

\* the loop over the octets started at 1
cidrToMask_FromOne(cidr) == cidrToMaskLoop(1, cidr, <<>>)

cidrToMask(cidr) == cidrToMaskLoop(0, cidr, <<>>)

\* null carries v = 0, the number a comparison or a subtraction makes of it
NullCidr == [isNull |-> TRUE, v |-> 0]

\* the loop over the bits 7 .. 0 of one byte
RECURSIVE maskToCidrBits(_, _, _, _)
maskToCidrBits(byte, i, cidr, zeroFound) ==
    IF i < 0 THEN [isNull |-> FALSE, v |-> cidr, zeroFound |-> zeroFound]
    ELSE IF And32(Sar32(byte, i), 1) # 0
         THEN IF zeroFound THEN [isNull |-> TRUE, v |-> 0, zeroFound |-> zeroFound]
              ELSE maskToCidrBits(byte, i - 1, cidr + 1, zeroFound)
         ELSE maskToCidrBits(byte, i - 1, cidr, TRUE)

RECURSIVE maskToCidrLoop(_, _, _, _)
maskToCidrLoop(parts, p, cidr, zeroFound) ==
    IF p > Len(parts) THEN [isNull |-> FALSE, v |-> cidr]
    ELSE LET r == maskToCidrBits(parseInt(parts[p]).v, 7, cidr, zeroFound) IN
         IF r.isNull THEN NullCidr
         ELSE maskToCidrLoop(parts, p + 1, r.v, r.zeroFound)

maskToCidr(mask) == maskToCidrLoop(split(mask, "."), 1, 0, FALSE)

bytesToDotted(bytes) == join(bytes, <<".">>)

NullString == [isNull |-> TRUE, s |-> <<>>]

convertCidrIfNeeded(dom, mask) ==
    IF ~startsWith(mask, "/")
    THEN [ret |-> [isNull |-> FALSE, s |-> mask], dom |-> dom]
    ELSE LET cidr == parseInt(slice(mask, 1)) IN
         IF cidr.nan \/ LessThan(cidr, 0) \/ GreaterThan(cidr, 32)
         THEN [ret |-> NullString, dom |-> showError(dom, MsgInvalidCidr)]
         ELSE [ret |-> [isNull |-> FALSE, s |-> cidrToMask(cidr.v)], dom |-> dom]

(***************************************************************************)
(* network calculations                                                    *)
(***************************************************************************)
calculateNetworkAddress(ipB, maskB) ==
    [i \in 1..Len(ipB) |-> And32(ipB[i], maskB[i])]

\* the complement of the mask octet left at its 32 bits
calculateBroadcastAddress_NoByteMask(networkB, maskB) ==
    [i \in 1..Len(networkB) |-> Or32(networkB[i], Not32(maskB[i]))]

calculateBroadcastAddress(networkB, maskB) ==
    [i \in 1..Len(networkB) |-> Or32(networkB[i], And32(Not32(maskB[i]), 255))]

NA == <<"N", "/", "A">>

\* for (let i = 3; i >= 0; i--) { if (bytes[i] < 255) { bytes[i]++; break; } else bytes[i] = 0; }
RECURSIVE firstUsableLoop(_, _)
firstUsableLoop(bytes, i) ==
    IF i < 0 THEN bytes
    ELSE IF bytes[i + 1] < 255 THEN [bytes EXCEPT ![i + 1] = @ + 1]
    ELSE firstUsableLoop([bytes EXCEPT ![i + 1] = 0], i - 1)

\* the guard one prefix length too early
calculateFirstUsableAddress_From30(networkB, cidr) ==
    IF cidr >= 30 THEN NA ELSE bytesToDotted(firstUsableLoop(networkB, 3))

calculateFirstUsableAddress(networkB, cidr) ==
    IF cidr >= 31 THEN NA ELSE bytesToDotted(firstUsableLoop(networkB, 3))

\* for (let i = 3; i >= 0; i--) { if (bytes[i] > 0) { bytes[i]--; break; } else bytes[i] = 255; }
RECURSIVE lastUsableLoop(_, _)
lastUsableLoop(bytes, i) ==
    IF i < 0 THEN bytes
    ELSE IF bytes[i + 1] > 0 THEN [bytes EXCEPT ![i + 1] = @ - 1]
    ELSE lastUsableLoop([bytes EXCEPT ![i + 1] = 255], i - 1)

calculateLastUsableAddress(broadcastB, cidr) ==
    IF cidr >= 31 THEN NA ELSE bytesToDotted(lastUsableLoop(broadcastB, 3))

\* the /31 case forgotten
calculateAvailableHosts_No31(cidr) ==
    IF cidr >= 32 THEN WideOf(0) ELSE WSub(MathPow2(32 - cidr), WideOf(2))

calculateAvailableHosts(cidr) ==
    IF cidr >= 32 THEN WideOf(0)
    ELSE IF cidr = 31 THEN WideOf(2)
    ELSE WSub(MathPow2(32 - cidr), WideOf(2))

getDefaultCidr(firstOctet) ==
    IF firstOctet >= 1 /\ firstOctet <= 126 THEN 8
    ELSE IF firstOctet >= 128 /\ firstOctet <= 191 THEN 16
    ELSE IF firstOctet >= 192 /\ firstOctet <= 223 THEN 24
    ELSE 0

getIPClass(firstOctet) ==
    IF firstOctet >= 1 /\ firstOctet <= 126 THEN "A"
    ELSE IF firstOctet = 127 THEN "Loopback"
    ELSE IF firstOctet >= 128 /\ firstOctet <= 191 THEN "B"
    ELSE IF firstOctet >= 192 /\ firstOctet <= 223 THEN "C"
    ELSE IF firstOctet >= 224 /\ firstOctet <= 239 THEN "D"
    ELSE "E"

getIPType(ipB) ==
    LET a == ipB[1]
        b == ipB[2]
    IN  IF a = 10 THEN "Private (RFC 1918)"
        ELSE IF a = 172 /\ b >= 16 /\ b <= 31 THEN "Private (RFC 1918)"
        ELSE IF a = 192 /\ b = 168 THEN "Private (RFC 1918)"
        ELSE IF a = 127 THEN "Loopback"
        ELSE IF a = 169 /\ b = 254 THEN "Link-local (APIPA)"
        ELSE IF a >= 224 /\ a <= 239 THEN "Multicast"
        ELSE IF a = 0 THEN "This network (reserved)"
        ELSE IF a = 255 THEN "Broadcast (reserved)"
        ELSE "Public"

\* the two nested loops, pos = 8 * i + (7 - bit) running over 0 .. 31 (the
\* test on result has TLC compute it at each step and changes nothing)
RECURSIVE subnetNumberLoop(_, _, _, _, _)
subnetNumberLoop(ipB, cidr, defaultCidr, pos, result) ==
    IF pos > 31 \/ result \notin Int THEN result
    ELSE LET i   == pos \div 8
             bit == 7 - (pos % 8)
         IN  subnetNumberLoop(ipB, cidr, defaultCidr, pos + 1,
                 IF pos >= defaultCidr /\ pos < cidr
                 THEN Or32(Shl32(result, 1), And32(Sar32(ipB[i + 1], bit), 1))
                 ELSE result)

\* result + 1 is a double addition: it does not wrap
calculateSubnetNumber(ipB, cidr, defaultCidr) ==
    IF cidr <= defaultCidr THEN WideOf(0)
    ELSE WAdd(WideOf(subnetNumberLoop(ipB, cidr, defaultCidr, 0, 0)), WideOf(1))

RECURSIVE hostNumberLoop(_, _, _, _)
hostNumberLoop(ipB, cidr, pos, result) ==
    IF pos > 31 \/ result \notin Int THEN result
    ELSE LET i   == pos \div 8
             bit == 7 - (pos % 8)
         IN  hostNumberLoop(ipB, cidr, pos + 1,
                 IF pos >= cidr
                 THEN Or32(Shl32(result, 1), And32(Sar32(ipB[i + 1], bit), 1))
                 ELSE result)

calculateHostNumber(ipB, cidr) ==
    IF cidr >= 32 THEN WideOf(0) ELSE WideOf(hostNumberLoop(ipB, cidr, 0, 0))

calculateTotalSubnets(cidr, defaultCidr) ==
    IF cidr <= defaultCidr THEN WideOf(1) ELSE MathPow2(cidr - defaultCidr)

(***************************************************************************)
(* the subnet list                                                         *)
(***************************************************************************)
\* x >>> 0: a number taken modulo 2^32
ToUint32(w) == [hi |-> w.hi % (2 ^ 16), lo |-> w.lo]

\* the int32 an operand of & becomes
ToInt32(w) ==
    LET u == ToUint32(w)
    IN  IF u.hi >= 2 ^ 15 THEN (u.hi - (2 ^ 16)) * (2 ^ 16) + u.lo
        ELSE u.hi * (2 ^ 16) + u.lo

\* s * w for a small count s
WMul(s, w) ==
    [hi |-> s * w.hi + ((s * w.lo) \div (2 ^ 16)), lo |-> (s * w.lo) % (2 ^ 16)]

\* x >>> n for n in 8, 16, 24, a number below 2^24
Shr32(w, n) ==
    LET u == ToUint32(w)
    IN  IF n >= 16 THEN u.hi \div (2 ^ (n - 16))
        ELSE u.hi * (2 ^ (16 - n)) + (u.lo \div (2 ^ n))

\* (b[0] << 24 | b[1] << 16 | b[2] << 8 | b[3]) >>> 0
bytesToInt(bytes) ==
    ToUint32(WideOf(Or32(Or32(Or32(Shl32(bytes[1], 24), Shl32(bytes[2], 16)),
                              Shl32(bytes[3], 8)),
                         bytes[4])))

intToIp(int) ==
    join(<<And32(Shr32(int, 24), 255),
           And32(Shr32(int, 16), 255),
           And32(Shr32(int, 8), 255),
           And32(ToInt32(int), 255)>>, <<".">>)

MAX_SHOW == 8

\* Math.min(totalSubnets, MAX_SHOW)
MathMin(w, n) == IF w.hi > 0 \/ w.lo > n THEN n ELSE w.lo

\* the HTML as its parts: the rows in order, each with its number, the two
\* addresses, the prefix and the 'current' flag, and the "more" line
renderSubnetList(networkBytes, maskB, subnetNumber, totalSubnets, cidr) ==
    LET blockSize       == MathPow2(32 - cidr)
        baseInt         == bytesToInt(networkBytes)
        defaultCidr     == getDefaultCidr(networkBytes[1])
        classNetworkInt ==
            And32(ToInt32(baseInt),
                  ToInt32(ToUint32(WideOf(
                      Shl32(ToInt32([hi |-> 65535, lo |-> 65535]), 32 - defaultCidr)))))
        showCount       == MathMin(totalSubnets, MAX_SHOW)
        netInt(s)       == ToUint32(WAdd(WideOf(classNetworkInt), WMul(s, blockSize)))
        bcastInt(s)     == ToUint32(WSub(WAdd(netInt(s), blockSize), WideOf(1)))
    IN  [rows |-> [r \in 1..showCount |->
                      [num     |-> r - 1,
                       net     |-> intToIp(netInt(r - 1)),
                       cidr    |-> cidr,
                       bcast   |-> intToIp(bcastInt(r - 1)),
                       current |-> (WideOf(r - 1) = subnetNumber)]],
         more |-> IF totalSubnets.hi > 0 \/ totalSubnets.lo > MAX_SHOW
                  THEN [shown |-> TRUE, n |-> WSub(totalSubnets, WideOf(MAX_SHOW))]
                  ELSE [shown |-> FALSE, n |-> WideOf(0)]]


performNetworkCalculations(ipB, maskB) ==
    LET networkBytes   == calculateNetworkAddress(ipB, maskB)
        broadcastBytes == calculateBroadcastAddress(networkBytes, maskB)
        cidr           == maskToCidr(bytesToDotted(maskB))
        defaultCidr    == getDefaultCidr(ipB[1])
        wildcardBytes  == [i \in 1..Len(maskB) |-> And32(Not32(maskB[i]), 255)]
    IN  [cidr             |-> cidr,
         defaultCidr      |-> defaultCidr,
         networkAddress   |-> bytesToDotted(networkBytes),
         broadcastAddress |-> bytesToDotted(broadcastBytes),
         wildcardMask     |-> bytesToDotted(wildcardBytes),
         firstUsable      |-> calculateFirstUsableAddress(networkBytes, cidr.v),
         lastUsable       |-> calculateLastUsableAddress(broadcastBytes, cidr.v),
         availableHosts   |-> calculateAvailableHosts(cidr.v),
         ipClass          |-> getIPClass(ipB[1]),
         ipType           |-> getIPType(ipB),
         subnetNumber     |-> calculateSubnetNumber(ipB, cidr.v, defaultCidr),
         hostNumber       |-> calculateHostNumber(ipB, cidr.v),
         totalSubnets     |-> calculateTotalSubnets(cidr.v, defaultCidr),
         networkBytes     |-> networkBytes,
         broadcastBytes   |-> broadcastBytes,
         ipBytes          |-> ipB,
         maskBytes        |-> maskB,
         wildcardBytes    |-> wildcardBytes]

(***************************************************************************)
(* the click handler                                                       *)
(***************************************************************************)
displayResultsInConsole(dom, ipAddress, subnetMask, c) ==
    [dom EXCEPT !.log = Append(@, "displayResultsInConsole")]

\* resultDiv.innerHTML = the template filled from ipAddress, subnetMask and c
displayResultsOnScreen(dom, ipAddress, subnetMask, c) ==
    [resultDiv |-> [kind |-> "result", ipAddress |-> ipAddress,
                    subnetMask |-> subnetMask, c |-> c,
                    subnetList |-> renderSubnetList(c.networkBytes, c.maskBytes,
                                                    c.subnetNumber, c.totalSubnets,
                                                    c.cidr.v)],
     log       |-> Append(dom.log, "displayResultsOnScreen")]

\* the one element of a singleton: a value named below by x \in {e} is e,
\* computed once, as a const of the script is
Only(S) == CHOOSE x \in S : TRUE

\* const ipBytes, maskBytes, calc, and the two display calls
renderResult(dom, ipAddress, subnetMask) ==
    Only({ displayResultsOnScreen(
               displayResultsInConsole(
                   [dom EXCEPT !.log = Append(@, "performNetworkCalculations")],
                   ipAddress, subnetMask, c),
               ipAddress, subnetMask, c)
           : c \in { performNetworkCalculations(b[1], b[2])
                     : b \in {<<convertToBytes(ipAddress), convertToBytes(subnetMask)>>} } })

\* from "if (subnetMask === null) return" on; conv is what
\* convertCidrIfNeeded returned and the panel it left
afterConvert(conv, ipAddress) ==
    IF conv.ret.isNull THEN conv.dom
    ELSE IF ~isValidMask(conv.ret.s) THEN showError(conv.dom, MsgInvalidMask)
    ELSE renderResult(conv.dom, ipAddress, conv.ret.s)

\* from validateInputsNotEmpty on, given the two trimmed values
afterTrim(dom, ipAddress, typedMask) ==
    Only({ IF ~nonEmpty.ret THEN nonEmpty.dom
           ELSE IF ~isValidIP(ipAddress) THEN showError(nonEmpty.dom, MsgInvalidIP)
           ELSE Only({ afterConvert(conv, ipAddress)
                       : conv \in {convertCidrIfNeeded(nonEmpty.dom, typedMask)} })
           : nonEmpty \in {validateInputsNotEmpty(dom, ipAddress, typedMask)} })

calculateBtnClick(dom, ipValue, maskValue) ==
    Only({ afterTrim(dom, t[1], t[2]) : t \in {<<trim(ipValue), trim(maskValue)>>} })

(***************************************************************************)
(* inputs                                                                  *)
(***************************************************************************)
MaxPattern == 2   \* octets 2..4 of an IP take the bit patterns 51 * k, k <= MaxPattern
MaxStray   == 2   \* octets 1 .. MaxStray, which no mask holds, join the mask octets
MaxCidrLen == 3   \* characters typed after the "/" of a mask

Dotted(bytes) == join(bytes, <<".">>)

\* the first octets at the edges of the classes, and the other octets
FirstOctets == {0, 1, 10, 126, 127, 128, 172, 191, 192, 223, 224, 239, 240, 255}
OtherOctets == {0, 255} \cup {51 * k : k \in 1..MaxPattern}
ScenarioIPs == {<<192, 168, 1, 10>>, <<10, 5, 0, 1>>, <<172, 20, 4, 4>>}
IpSamples ==
    {<<a, b, c, d>> : a \in FirstOctets, b \in OtherOctets,
                      c \in OtherOctets, d \in OtherOctets} \cup ScenarioIPs

RECURSIVE SumPow2(_)
SumPow2(S) ==
    IF S = {} THEN 0
    ELSE LET i == CHOOSE i \in S : TRUE IN (2 ^ i) + SumPow2(S \ {i})

\* the mask whose 32-bit form is n one-bits then 32 - n zero-bits: bit b of
\* octet i (0-based) is at position 8 * i + (7 - b)
MaskOfPrefix(n) ==
    [i \in 1..4 |-> SumPow2({b \in 0..7 : 8 * (i - 1) + (7 - b) < n})]

MaskOctets == {256 - (2 ^ k) : k \in 0..8} \cup (1..MaxStray)
Quads == {<<a, b, c, d>> : a \in MaskOctets, b \in MaskOctets,
                           c \in MaskOctets, d \in MaskOctets}

CidrChars == {"0", "1", "2", "3", "9", "a", "x", " ", "-"}
CidrTexts ==
    {<<"/">> \o t : t \in UNION {[1..n -> CidrChars] : n \in 0..MaxCidrLen}}

IpTexts ==
    { <<>>, <<" ">>, Dotted(<<1, 2, 3>>), Dotted(<<10, 0, 0, 256>>),
      Dotted(<<10, 5, 0, 1>>), Dotted(<<192, 168, 1, 10>>),
      <<" ">> \o Dotted(<<172, 20, 4, 4>>) \o <<" ">>,
      Dotted(<<128, 0, 0, 0>>) }

MaskTexts ==
    { <<>>, <<"/">>, <<"/", "3", "3">>, <<"/", "1", "6">>, <<"/", "0">>,
      <<"/", "3", "2">>, <<"/", "3", "a">>, <<" ", "/", "8", " ">>,
      <<"a", "b", "c">>,
      Dotted(<<255, 0, 255, 0>>), Dotted(<<255, 255, 255, 0>>),
      Dotted(<<255, 255, 255, 252>>), Dotted(<<255, 255, 256, 0>>) }

Keys == {"Enter", "a"}

(***************************************************************************)
(* the page: triggers of the click handler                                 *)
(***************************************************************************)
NoCalc == [none |-> TRUE]
NoOut  == [none |-> TRUE]

ClickIdle ==
    /\ ipAddressInput = <<>>
    /\ subnetMaskInput = <<>>
    /\ resultDiv = EmptyPanel
    /\ log = <<>>
    /\ shownBefore = "none"

CalcIdle ==
    /\ ipBytes = <<0, 0, 0, 0>>
    /\ prefix = 0
    /\ maskBytes = <<0, 0, 0, 0>>
    /\ calc = NoCalc

FnIdle ==
    /\ fn = "none"
    /\ arg = 0
    /\ out = NoOut

Init == ClickIdle /\ CalcIdle /\ FnIdle

\* one run of the listener of calculateBtn on the values of the two fields;
\* log starts empty: it holds the calls of this run
Trigger(ipValue, maskValue) ==
    \E dom \in {calculateBtnClick([resultDiv |-> resultDiv, log |-> <<>>],
                                   ipValue, maskValue)} :
        /\ ipAddressInput' = ipValue
        /\ subnetMaskInput' = maskValue
        /\ resultDiv' = dom.resultDiv
        /\ log' = dom.log
        /\ shownBefore' = resultDiv.kind
        /\ UNCHANGED <<calcVars, fnVars>>

\* the user fills the two fields and clicks the button
Click == \E ipValue \in IpTexts, maskValue \in MaskTexts : Trigger(ipValue, maskValue)

\* keypress in #ipAddress: Enter clicks the button, which reads the two
\* fields as they stand; another key does not reach the handler
IpKeypress ==
    \E key \in Keys :
        \/ key = "Enter" /\ Trigger(ipAddressInput, subnetMaskInput)
        \/ key # "Enter" /\ UNCHANGED vars

\* keypress in #subnetMask
MaskKeypress ==
    \E key \in Keys :
        \/ key = "Enter" /\ Trigger(ipAddressInput, subnetMaskInput)
        \/ key # "Enter" /\ UNCHANGED vars

Next == Click \/ IpKeypress \/ MaskKeypress

Spec == Init /\ [][Next]_vars

(***************************************************************************)
(* performNetworkCalculations on an IP and a valid mask                    *)
(***************************************************************************)
InitCalc ==
    /\ ClickIdle /\ FnIdle
    /\ ipBytes \in IpSamples
    /\ prefix \in 0..32
    /\ maskBytes = MaskOfPrefix(prefix)
    /\ calc = NoCalc

Calculate ==
    /\ calc = NoCalc
    /\ calc' = performNetworkCalculations(ipBytes, maskBytes)
    /\ UNCHANGED <<ipBytes, prefix, maskBytes, clickVars, fnVars>>

\* renderSubnetList on the fields of the result, as displayResultsOnScreen
\* calls it
RenderSubnetList ==
    /\ calc # NoCalc /\ out = NoOut
    /\ out' = renderSubnetList(calc.networkBytes, calc.maskBytes, calc.subnetNumber,
                               calc.totalSubnets, calc.cidr.v)
    /\ UNCHANGED <<fn, arg, calcVars, clickVars>>

NextCalc == Calculate \/ RenderSubnetList

SpecCalc == InitCalc /\ [][NextCalc]_vars

(***************************************************************************)
(* the functions of the script applied on their own                        *)
(***************************************************************************)
InitFn ==
    /\ ClickIdle /\ CalcIdle
    /\ out = NoOut
    /\ \/ fn = "cidrToMask" /\ arg \in 0..32
       \/ fn = "maskToCidr" /\ arg \in Quads
       \/ fn = "convertCidrIfNeeded" /\ arg \in CidrTexts
       \/ fn = "getIPClass" /\ arg \in 0..255
       \/ fn = "calculateAvailableHosts" /\ arg \in 0..32

\* cidrToMask(arg), and isValidMask and maskToCidr on the mask it returns
ApplyCidrToMask ==
    /\ fn = "cidrToMask" /\ out = NoOut
    /\ out' = LET mask == cidrToMask(arg)
              IN  [mask |-> mask, valid |-> isValidMask(mask), cidr |-> maskToCidr(mask)]
    /\ UNCHANGED <<fn, arg, clickVars, calcVars>>

\* isValidMask and maskToCidr on the dotted form of arg, and cidrToMask on
\* the prefix length maskToCidr returns
ApplyMaskToCidr ==
    /\ fn = "maskToCidr" /\ out = NoOut
    /\ out' = LET mask == bytesToDotted(arg)
                  cidr == maskToCidr(mask)
              IN  [valid |-> isValidMask(mask),
                   cidr  |-> cidr,
                   back  |-> IF cidr.isNull THEN <<>> ELSE cidrToMask(cidr.v)]
    /\ UNCHANGED <<fn, arg, clickVars, calcVars>>

ApplyConvertCidrIfNeeded ==
    /\ fn = "convertCidrIfNeeded" /\ out = NoOut
    /\ out' = convertCidrIfNeeded([resultDiv |-> EmptyPanel, log |-> <<>>], arg)
    /\ UNCHANGED <<fn, arg, clickVars, calcVars>>

ApplyGetIPClass ==
    /\ fn = "getIPClass" /\ out = NoOut
    /\ out' = [ipClass |-> getIPClass(arg), defaultCidr |-> getDefaultCidr(arg)]
    /\ UNCHANGED <<fn, arg, clickVars, calcVars>>

ApplyCalculateAvailableHosts ==
    /\ fn = "calculateAvailableHosts" /\ out = NoOut
    /\ out' = [hosts |-> calculateAvailableHosts(arg)]
    /\ UNCHANGED <<fn, arg, clickVars, calcVars>>

NextFn ==
    \/ ApplyCidrToMask
    \/ ApplyMaskToCidr
    \/ ApplyConvertCidrIfNeeded
    \/ ApplyGetIPClass
    \/ ApplyCalculateAvailableHosts

SpecFn == InitFn /\ [][NextFn]_vars

(***************************************************************************)
(* what the properties are stated with: octets as sets of bit positions,   *)
(* addresses as 32-bit values, dotted text read digit by digit             *)
(***************************************************************************)
BitsOf(x) == {i \in 0..7 : (x \div (2 ^ i)) % 2 = 1}
OctetAnd(a, b) == SumPow2(BitsOf(a) \cap BitsOf(b))
OctetOr(a, b)  == SumPow2(BitsOf(a) \cup BitsOf(b))
OctetNot(a)    == SumPow2((0..7) \ BitsOf(a))

DigitValue(c) ==
    CASE c = "0" -> 0 [] c = "1" -> 1 [] c = "2" -> 2 [] c = "3" -> 3
      [] c = "4" -> 4 [] c = "5" -> 5 [] c = "6" -> 6 [] c = "7" -> 7
      [] c = "8" -> 8 [] c = "9" -> 9 [] OTHER -> -1

\* the numbers a text of digits and dots spells, <<>> when it holds another
\* character or an empty group
RECURSIVE ReadGroups(_, _, _, _)
ReadGroups(text, cur, n, acc) ==
    IF text = <<>> THEN (IF n = 0 THEN <<>> ELSE Append(acc, cur))
    ELSE IF Head(text) = "."
         THEN (IF n = 0 THEN <<>> ELSE ReadGroups(Tail(text), 0, 0, Append(acc, cur)))
    ELSE IF DigitValue(Head(text)) < 0 THEN <<>>
    ELSE ReadGroups(Tail(text), 10 * cur + DigitValue(Head(text)), n + 1, acc)

ReadDotted(text) == ReadGroups(text, 0, 0, <<>>)

\* an address as a 32-bit value, and back
AddressValue(bytes) ==
    [hi |-> bytes[1] * 256 + bytes[2], lo |-> bytes[3] * 256 + bytes[4]]
OctetsOfValue(w) ==
    <<(w.hi \div 256) % 256, w.hi % 256, w.lo \div 256, w.lo % 256>>

\* w mod 2^k and w div 2^k for a 32-bit value w and k in 0 .. 32
WMod2(w, k) ==
    IF k >= 16 THEN [hi |-> w.hi % (2 ^ (k - 16)), lo |-> w.lo]
    ELSE [hi |-> 0, lo |-> w.lo % (2 ^ k)]
WDiv2(w, k) ==
    IF k >= 16 THEN [hi |-> 0, lo |-> w.hi \div (2 ^ (k - 16))]
    ELSE [hi |-> w.hi \div (2 ^ k),
          lo |-> ((w.hi % (2 ^ k)) * (2 ^ (16 - k))) + (w.lo \div (2 ^ k))]

\* the unsigned integer the bits at positions [from, to) of an IP form,
\* position 0 being the most significant bit of the first octet
BitsOfIP(ip, from, to) == WDiv2(WMod2(AddressValue(ip), 32 - from), 32 - to)

ClassfulDefault(firstOctet) ==
    CASE firstOctet \in 1..126   -> 8
      [] firstOctet \in 128..191 -> 16
      [] firstOctet \in 192..223 -> 24
      [] OTHER -> 0

Calculated == calc # NoCalc
Applied(f) == fn = f /\ out # NoOut

(***************************************************************************)
(* C1.  For every IP and every valid mask the result of                    *)
(* performNetworkCalculations has, octet by octet, networkAddress = IP AND *)
(* mask, wildcardMask = NOT mask on 8 bits, networkAddress AND             *)
(* wildcardMask = 0 and broadcastAddress = networkAddress OR wildcardMask. *)
(***************************************************************************)
C1_NetworkAlgebra ==
    Calculated =>
        /\ calc.networkBytes = [i \in 1..4 |-> OctetAnd(ipBytes[i], maskBytes[i])]
        /\ calc.wildcardBytes = [i \in 1..4 |-> OctetNot(maskBytes[i])]
        /\ \A i \in 1..4 : OctetAnd(calc.networkBytes[i], calc.wildcardBytes[i]) = 0
        /\ calc.broadcastBytes =
               [i \in 1..4 |-> OctetOr(calc.networkBytes[i], calc.wildcardBytes[i])]
        /\ ReadDotted(calc.networkAddress) = calc.networkBytes
        /\ ReadDotted(calc.wildcardMask) = calc.wildcardBytes
        /\ ReadDotted(calc.broadcastAddress) = calc.broadcastBytes

C1_Witness ==
    /\ Calculated
    /\ ipBytes = <<172, 20, 4, 4>> /\ prefix = 20
    /\ calc.networkAddress = Dotted(<<172, 20, 0, 0>>)
    /\ calc.wildcardMask = Dotted(<<0, 0, 15, 255>>)
    /\ calc.broadcastAddress = Dotted(<<172, 20, 15, 255>>)

(***************************************************************************)
(* C2.  calculateSubnetNumber returns 0 when cidr <= d, d the classful     *)
(* default of the first octet, and otherwise the unsigned integer formed   *)
(* by the IP's bits at positions [d, cidr); 10.5.0.1 with /16 gives 5.     *)
(***************************************************************************)
C2_SubnetNumber ==
    Calculated =>
        calc.subnetNumber =
            (LET d == ClassfulDefault(ipBytes[1])
             IN  IF prefix <= d THEN WideOf(0) ELSE BitsOfIP(ipBytes, d, prefix))

(***************************************************************************)
(* C3.  calculateHostNumber returns 0 when cidr >= 32 and otherwise the    *)
(* non-negative unsigned integer formed by the IP's bits at positions      *)
(* [cidr, 32), a value in 0 .. 2^(32-cidr) - 1, never a negative number.   *)
(***************************************************************************)
C3_HostNumber ==
    Calculated =>
        /\ calc.hostNumber =
               (IF prefix >= 32 THEN WideOf(0) ELSE BitsOfIP(ipBytes, prefix, 32))
        /\ calc.hostNumber.hi >= 0

(***************************************************************************)
(* C4.  When cidr <= 30, firstUsable is the network address plus 1 and     *)
(* lastUsable the broadcast address minus 1, as 32-bit values with every   *)
(* octet in 0 .. 255; when cidr is 31 or 32 both are "N/A".                *)
(***************************************************************************)
C4_UsableRange ==
    Calculated =>
        IF prefix <= 30
        THEN LET first == WAdd(AddressValue(calc.networkBytes), WideOf(1))
                 last  == WSub(AddressValue(calc.broadcastBytes), WideOf(1))
             IN  /\ first.hi \in 0..65535 /\ last.hi \in 0..65535
                 /\ ReadDotted(calc.firstUsable) = OctetsOfValue(first)
                 /\ ReadDotted(calc.lastUsable) = OctetsOfValue(last)
        ELSE calc.firstUsable = NA /\ calc.lastUsable = NA

C4_Witness ==
    /\ Calculated
    /\ ipBytes = <<172, 20, 4, 4>> /\ prefix = 30
    /\ calc.firstUsable = Dotted(<<172, 20, 4, 5>>)
    /\ calc.lastUsable = Dotted(<<172, 20, 4, 6>>)

(***************************************************************************)
(* C5.  calculateAvailableHosts(p) is 0 when p = 32, 2 when p = 31 and     *)
(* exactly 2^(32-p) - 2 otherwise, without loss at small prefixes: p = 0   *)
(* gives 4294967294 = 65535 * 2^16 + 65534, p = 24 gives 254.              *)
(***************************************************************************)
C5_AvailableHosts ==
    Applied("calculateAvailableHosts") =>
        /\ out.hosts =
               (IF arg = 32 THEN [hi |-> 0, lo |-> 0]
                ELSE IF arg = 31 THEN [hi |-> 0, lo |-> 2]
                ELSE IF arg >= 17 THEN [hi |-> 0, lo |-> (2 ^ (32 - arg)) - 2]
                ELSE [hi |-> (2 ^ (16 - arg)) - 1, lo |-> 65534])
        /\ arg = 0 => out.hosts = [hi |-> 65535, lo |-> 65534]
        /\ arg = 24 => out.hosts = [hi |-> 0, lo |-> 254]

C5_Witness ==
    /\ Applied("calculateAvailableHosts")
    /\ arg = 0
    /\ out.hosts = [hi |-> 65535, lo |-> 65534]

(***************************************************************************)
(* C6.  One trigger of the click handler ends in exactly one outcome: a    *)
(* complete result is rendered, or exactly one error is shown and no       *)
(* calculation is performed; the error is that of the first failing check  *)
(* in the order missing fields, invalid IP, invalid CIDR, invalid mask.    *)
(***************************************************************************)
\* four groups of one to three digits, each at most 255
IsAddressText(text) ==
    LET groups == ReadDotted(text) IN
    /\ Len(groups) = 4
    /\ Len(text) <= 15
    /\ \A i \in 1..4 : groups[i] <= 255
    /\ \A i \in 1..(Len(text) - 3) :
           \E j \in i..(i + 3) : text[j] = "."

\* the check convertCidrIfNeeded makes of a text that begins with "/"
CidrCheckFails(mask) ==
    LET cidr == parseInt(Tail(mask)) IN cidr.nan \/ cidr.v < 0 \/ cidr.v > 32

IsMaskText(text) ==
    IsAddressText(text) /\ \E n \in 0..32 : ReadDotted(text) = MaskOfPrefix(n)

FirstFailingCheck(ip, mask) ==
    IF ip = <<>> \/ mask = <<>> THEN MsgMissingFields
    ELSE IF ~IsAddressText(ip) THEN MsgInvalidIP
    ELSE IF Head(mask) = "/"
         THEN (IF CidrCheckFails(mask) THEN MsgInvalidCidr ELSE "none")
    ELSE IF ~IsMaskText(mask) THEN MsgInvalidMask
    ELSE "none"

ResultLog ==
    <<"performNetworkCalculations", "displayResultsInConsole", "displayResultsOnScreen">>

Triggered == log # <<>>

C6_OneOutcome ==
    Triggered =>
        LET failing == FirstFailingCheck(trim(ipAddressInput), trim(subnetMaskInput)) IN
        /\ IF failing = "none"
           THEN resultDiv.kind = "result" /\ log = ResultLog
           ELSE resultDiv = [kind |-> "error", message |-> failing]
                /\ log = <<"showError">>
        /\ ipAddressInput = Dotted(<<10, 0, 0, 256>>) /\ subnetMaskInput # <<>>
               => resultDiv = [kind |-> "error", message |-> MsgInvalidIP]
        /\ ipAddressInput = Dotted(<<10, 5, 0, 1>>) /\ subnetMaskInput = <<"/", "3", "3">>
               => resultDiv = [kind |-> "error", message |-> MsgInvalidCidr]
        /\ ipAddressInput = Dotted(<<10, 5, 0, 1>>)
             /\ subnetMaskInput = Dotted(<<255, 0, 255, 0>>)
               => resultDiv = [kind |-> "error", message |-> MsgInvalidMask]

C6_Witness ==
    /\ ipAddressInput = Dotted(<<10, 0, 0, 256>>)
    /\ subnetMaskInput = Dotted(<<255, 0, 255, 0>>)
    /\ resultDiv = [kind |-> "error", message |-> MsgInvalidIP]
    /\ log = <<"showError">>

(***************************************************************************)
(* C7.  For a mask text beginning with "/", convertCidrIfNeeded converts   *)
(* it to a dotted mask only when the whole remainder is an integer in      *)
(* [0, 32]; for any other remainder it signals the invalid-CIDR error and  *)
(* returns no mask.                                                        *)
(***************************************************************************)
IsWholeCidr(rest) ==
    /\ rest # <<>>
    /\ \A i \in 1..Len(rest) : DigitValue(rest[i]) >= 0
    /\ ReadDotted(rest)[1] \in 0..32

C7_WholeRemainder ==
    Applied("convertCidrIfNeeded") =>
        IF IsWholeCidr(Tail(arg))
        THEN /\ ~out.ret.isNull
             /\ ReadDotted(out.ret.s) = MaskOfPrefix(ReadDotted(Tail(arg))[1])
             /\ out.dom.log = <<>>
        ELSE /\ out.ret.isNull
             /\ out.dom.resultDiv = [kind |-> "error", message |-> MsgInvalidCidr]
             /\ out.dom.log = <<"showError">>

(***************************************************************************)
(* C8.  For every address m of four octets: isValidMask accepts m if and   *)
(* only if maskToCidr(m) is not null, and for every accepted m             *)
(* cidrToMask(maskToCidr(m)) is m as an octet quadruple.                   *)
(***************************************************************************)
C8_MaskAgreement ==
    Applied("maskToCidr") =>
        /\ out.valid <=> ~out.cidr.isNull
        /\ out.valid => ReadDotted(out.back) = arg

C8_Witness ==
    /\ Applied("maskToCidr")
    /\ arg = <<255, 255, 252, 0>>
    /\ out.valid
    /\ out.cidr = [isNull |-> FALSE, v |-> 22]
    /\ out.back = Dotted(<<255, 255, 252, 0>>)

(***************************************************************************)
(* C9.  For every prefix length p in 0 .. 32, cidrToMask(p) is four octets *)
(* in 0 .. 255 whose 32-bit form is p one-bits then 32 - p zero-bits (each *)
(* octet 255, 256 - 2^(8 - remaining) or 0), isValidMask accepts it and    *)
(* maskToCidr(cidrToMask(p)) = p.                                          *)
(***************************************************************************)
C9_CidrRoundTrip ==
    Applied("cidrToMask") =>
        LET octets == ReadDotted(out.mask) IN
        /\ Len(octets) = 4
        /\ octets = MaskOfPrefix(arg)
        /\ \A i \in 1..4 :
               /\ octets[i] \in 0..255
               /\ LET remaining == arg - 8 * (i - 1)
                  IN  octets[i] = (IF remaining >= 8 THEN 255
                                   ELSE IF remaining <= 0 THEN 0
                                   ELSE 256 - (2 ^ (8 - remaining)))
        /\ out.valid
        /\ out.cidr = [isNull |-> FALSE, v |-> arg]

C9_Witness ==
    /\ Applied("cidrToMask")
    /\ arg = 20
    /\ out.mask = Dotted(<<255, 255, 240, 0>>)
    /\ out.valid
    /\ out.cidr = [isNull |-> FALSE, v |-> 20]

(***************************************************************************)
(* C10.  getIPClass returns A exactly for 1-126, Loopback exactly for 127, *)
(* B exactly for 128-191, C exactly for 192-223, D exactly for 224-239 and *)
(* E exactly for 240-255; getDefaultCidr returns 8, 16, 24 exactly when    *)
(* that class is A, B, C and 0 for every other octet.                      *)
(***************************************************************************)
C10_Classes ==
    Applied("getIPClass") =>
        /\ out.ipClass = "A" <=> arg \in 1..126
        /\ out.ipClass = "Loopback" <=> arg = 127
        /\ out.ipClass = "B" <=> arg \in 128..191
        /\ out.ipClass = "C" <=> arg \in 192..223
        /\ out.ipClass = "D" <=> arg \in 224..239
        /\ out.ipClass = "E" <=> arg \in 240..255
        /\ out.defaultCidr = 8 <=> out.ipClass = "A"
        /\ out.defaultCidr = 16 <=> out.ipClass = "B"
        /\ out.defaultCidr = 24 <=> out.ipClass = "C"
        /\ out.defaultCidr = 0 <=> out.ipClass \notin {"A", "B", "C"}

(***************************************************************************)
(* C11.  After any sequence of triggers the panel holds what one trigger   *)
(* with the last pair of inputs produces on a fresh page: nothing of an    *)
(* earlier result or error survives, and an error replaces a result.       *)
(***************************************************************************)
FreshPage == [resultDiv |-> EmptyPanel, log |-> <<>>]

C11_FreshPanel ==
    Triggered =>
        /\ resultDiv =
               calculateBtnClick(FreshPage, ipAddressInput, subnetMaskInput).resultDiv
        /\ resultDiv.kind = "error" => DOMAIN resultDiv = {"kind", "message"}
        /\ resultDiv.kind \in {"error", "result"}

C11_Witness ==
    /\ Triggered
    /\ shownBefore = "result"
    /\ resultDiv = [kind |-> "error", message |-> MsgInvalidMask]
    /\ subnetMaskInput = Dotted(<<255, 0, 255, 0>>)

(***************************************************************************)
(* C12.  In the list renderSubnetList builds from a calculation result, a  *)
(* row is flagged 'current' if and only if its network address is the      *)
(* result's networkAddress; so when the IP's subnet is among the rows      *)
(* shown, exactly one row is flagged, the IP's own.                        *)
(***************************************************************************)
Listed == Calculated /\ out # NoOut

C12_CurrentRow ==
    Listed =>
        /\ \A r \in DOMAIN out.rows :
               out.rows[r].current <=> (out.rows[r].net = calc.networkAddress)
        /\ (\E r \in DOMAIN out.rows : out.rows[r].net = calc.networkAddress)
               => Cardinality({r \in DOMAIN out.rows : out.rows[r].current}) = 1

(***************************************************************************)
(* C13.  renderSubnetList shows min(totalSubnets, 8) rows; row s (from 0)  *)
(* has as network the IP with every bit from position d onward cleared,   *)
(* plus s * 2^(32-cidr), and as broadcast that network plus                *)
(* 2^(32-cidr) - 1, all in 0 .. 2^32 - 1 without wrap-around; the "more"   *)
(* line appears exactly when totalSubnets > 8, with N = totalSubnets - 8.  *)
(***************************************************************************)
\* the IP with every bit from position d onward cleared, as a 32-bit value
ClassNetworkValue(ip, d) == WSub(AddressValue(ip), WMod2(AddressValue(ip), 32 - d))

\* s * 2^k for s in 0 .. 7 and k in 0 .. 32
TimesPow2(s, k) ==
    IF k >= 16 THEN [hi |-> s * (2 ^ (k - 16)), lo |-> 0]
    ELSE [hi |-> (s * (2 ^ k)) \div (2 ^ 16), lo |-> (s * (2 ^ k)) % (2 ^ 16)]

BlockNetwork(ip, d, cidr, s) == WAdd(ClassNetworkValue(ip, d), TimesPow2(s, 32 - cidr))
BlockBroadcast(ip, d, cidr, s) ==
    WSub(WAdd(BlockNetwork(ip, d, cidr, s), TimesPow2(1, 32 - cidr)), WideOf(1))

TotalSubnetsOver(n) == calc.totalSubnets.hi > 0 \/ calc.totalSubnets.lo > n

C13_SubnetRows ==
    Listed =>
        LET d == ClassfulDefault(ipBytes[1]) IN
        /\ Len(out.rows) = (IF TotalSubnetsOver(8) THEN 8 ELSE calc.totalSubnets.lo)
        /\ \A r \in DOMAIN out.rows :
               LET net   == BlockNetwork(ipBytes, d, prefix, r - 1)
                   bcast == BlockBroadcast(ipBytes, d, prefix, r - 1)
               IN  /\ net.hi \in 0..65535 /\ bcast.hi \in 0..65535
                   /\ ReadDotted(out.rows[r].net) = OctetsOfValue(net)
                   /\ ReadDotted(out.rows[r].bcast) = OctetsOfValue(bcast)
        /\ out.more.shown <=> TotalSubnetsOver(8)
        /\ out.more.shown => out.more.n = WSub(calc.totalSubnets, WideOf(8))

====
